---- MODULE Spec2Model ----
(***************************************************************************)
(* Model of cameras/qhy/dummyqhy.c: the stand-in for the QHY single-frame  *)
(* capture call (DummyGetQHYCCDSingleFrame) and the pointer-echo helper    *)
(* (DummyBufferAddress).                                                   *)
(*                                                                         *)
(* Memory is caller-owned and modelled in two typed regions:               *)
(*   cells : the caller's four uint32_t objects (width, height, bpp,       *)
(*           channels), each held as its four bytes so that a store can be *)
(*           split byte-wise where two threads race on it;                 *)
(*   heap  : a flat byte region, addresses 1..HeapSize, into which the     *)
(*           imgdata pointer points.                                       *)
(* A pointer is a natural number, NULL is 0.                               *)
(***************************************************************************)
EXTENDS Integers, Sequences, FiniteSets

VARIABLES
    cells,      \* descriptor objects: address -> 4 bytes (least significant first)
    heap,       \* byte memory: address -> 0..255
    lastOp,     \* "none", "capture" or "probe": the function called last
    lastArgs,   \* the five destinations the last capture call was given
    ret,        \* <<>> before any capture, else <<status>> of the last capture
    probeArg,   \* the argument of the last call if it was a probe, else NULL
    addr,       \* <<result>> of the last call if it was a probe, else <<>>
    repeat,     \* the last call was a capture given the same destinations as
                \* the capture before it
    twin,       \* what the last capture leaves when it is given another handle
    start,      \* the memory the concurrent callers started from
    pc,         \* per concurrent caller: its position in the function
    pret        \* per concurrent caller: <<>> or <<status>>

vars == <<cells, heap, lastOp, lastArgs, ret, probeArg, addr, repeat, twin, start, pc, pret>>

----------------------------------------------------------------------------
(* Program constants *)

NULL == 0
WIDTH == 8
HEIGHT == 4
BPP == 8
CHANNELS == 1
PatternLen == 32
SUCCESS == 0
FAILURE == 1

(* Bounds of the model *)

\* bytes of the caller's region that lie before, and after, every buffer
BufSlack == 1
\* number of concurrent callers
NProcs == 2

----------------------------------------------------------------------------
(* The caller's memory and the arguments it can pass *)

HeapSize == BufSlack + PatternLen + 1 + BufSlack
HeapAddrs == 1..HeapSize
CellAddrs == 1..4

\* imgdata is NULL or points at 32 bytes or more inside the region, the slack
\* bytes on either side not counted: two buffers that overlap
BufPtrs ==
    {NULL} \cup {a \in HeapAddrs : a > BufSlack /\ a + PatternLen - 1 + BufSlack <= HeapSize}

Handles == {NULL, 1}

Procs == 1..NProcs

\* SingleFrameCapture(handle, &width, &height, &bpp, &channels, buffer):
\* each descriptor pointer is NULL or the address of the caller's own object.
CallerArgs ==
    [w : {NULL, 1}, h : {NULL, 2}, bpp : {NULL, 3}, ch : {NULL, 4}, imgdata : BufPtrs]

NoArgs == [w |-> NULL, h |-> NULL, bpp |-> NULL, ch |-> NULL, imgdata |-> NULL]

\* what memory may hold before the first call
JunkBytes == {0, 255}

RECURSIVE Pow256(_)
Pow256(k) == IF k = 0 THEN 1 ELSE 256 * Pow256(k - 1)

\* byte k of the uint32_t value v
ByteOf(v, k) == (v \div Pow256(k)) % 256

----------------------------------------------------------------------------
(* The stores of DummyGetQHYCCDSingleFrame *)

\* one byte of the store  *p = v  through a non-null uint32_t* p
StoreCellByte(c, p, v, k) == [c EXCEPT ![p] = [@ EXCEPT ![k] = ByteOf(v, k)]]

\* slip: if (p) *p += v;
StoreIfPresentAdding(c, p, v) ==
    IF p # NULL
    THEN [c EXCEPT ![p] = [@ EXCEPT ![0] = (@ + v) % 256]]
    ELSE c

\* if (p) *p = v;
StoreIfPresent(c, p, v) ==
    IF p # NULL
    THEN StoreCellByte(StoreCellByte(StoreCellByte(StoreCellByte(c, p, v, 0), p, v, 1), p, v, 2), p, v, 3)
    ELSE c

\* slip: (uint8_t)(i & 0x0F)
PatternByteMasked(i) == (i % 16) % 256

\* (uint8_t)(i & 0xFF)
PatternByte(i) == (i % 256) % 256

\* slip: imgdata[i] += (uint8_t)(i & 0xFF);
StoreImgByteAdding(m, imgdata, i) ==
    [m EXCEPT ![imgdata + i] = (@ + PatternByte(i)) % 256]

\* imgdata[i] = (uint8_t)(i & 0xFF);
StoreImgByte(m, imgdata, i) == [m EXCEPT ![imgdata + i] = PatternByte(i)]

\* slip: for (int i = 0; i <= n; ++i)
RECURSIVE FillLoopInclusive(_, _, _)
FillLoopInclusive(m, imgdata, n) ==
    IF n < 0
    THEN m
    ELSE StoreImgByte(FillLoopInclusive(m, imgdata, n - 1), imgdata, n)

\* for (int i = 0; i < n; ++i) imgdata[i] = ...;   the memory after n iterations
RECURSIVE FillLoop(_, _, _)
FillLoop(m, imgdata, n) ==
    IF n = 0
    THEN m
    ELSE StoreImgByte(FillLoop(m, imgdata, n - 1), imgdata, n - 1)

\* slip: width and height exchanged
WriteDescriptorsSwapped(c, w, h, bpp, ch) ==
    StoreIfPresent(StoreIfPresent(StoreIfPresent(StoreIfPresent(c, w, HEIGHT), h, WIDTH), bpp, BPP), ch, CHANNELS)

\* lines 30-33
WriteDescriptors(c, w, h, bpp, ch) ==
    StoreIfPresent(StoreIfPresent(StoreIfPresent(StoreIfPresent(c, w, WIDTH), h, HEIGHT), bpp, BPP), ch, CHANNELS)

\* variant: the buffer is tested before anything is written
BufferCheckedFirst(handle, w, h, bpp, ch, imgdata, c, m) ==
    IF imgdata # NULL
    THEN [cells |-> WriteDescriptors(c, w, h, bpp, ch),
          heap |-> FillLoop(m, imgdata, PatternLen), ret |-> SUCCESS]
    ELSE [cells |-> c, heap |-> m, ret |-> FAILURE]

\* variant: a missing descriptor destination is an error
DescriptorsRequired(handle, w, h, bpp, ch, imgdata, c, m) ==
    LET c1 == WriteDescriptors(c, w, h, bpp, ch)
    IN  IF imgdata # NULL /\ w # NULL /\ h # NULL /\ bpp # NULL /\ ch # NULL
        THEN [cells |-> c1, heap |-> FillLoop(m, imgdata, PatternLen), ret |-> SUCCESS]
        ELSE [cells |-> c1, heap |-> m, ret |-> FAILURE]

\* variant: a null handle is rejected
HandleRequired(handle, w, h, bpp, ch, imgdata, c, m) ==
    LET c1 == WriteDescriptors(c, w, h, bpp, ch)
    IN  IF imgdata # NULL /\ handle # NULL
        THEN [cells |-> c1, heap |-> FillLoop(m, imgdata, PatternLen), ret |-> SUCCESS]
        ELSE [cells |-> c1, heap |-> m, ret |-> FAILURE]

\* the whole function: the memory it leaves and the status it returns
DummyGetQHYCCDSingleFrame(handle, w, h, bpp, ch, imgdata, c, m) ==
    LET c1 == WriteDescriptors(c, w, h, bpp, ch)
    IN  IF imgdata # NULL
        THEN [cells |-> c1, heap |-> FillLoop(m, imgdata, PatternLen), ret |-> SUCCESS]
        ELSE [cells |-> c1, heap |-> m, ret |-> FAILURE]

\* slip: return (uintptr_t)*imgdata;
DummyBufferAddressDeref(imgdata) == IF imgdata # NULL THEN heap[imgdata] ELSE NULL

\* return (uintptr_t)imgdata;
DummyBufferAddress(imgdata) == imgdata

----------------------------------------------------------------------------
(* Sequential callers *)

InitMemory ==
    \E b \in JunkBytes :
        /\ cells = [a \in CellAddrs |-> [k \in 0..3 |-> b]]
        /\ heap = [a \in HeapAddrs |-> b]

Idle ==
    /\ twin = [cells |-> cells, heap |-> heap, ret |-> <<>>, handles |-> <<NULL, NULL>>]
    /\ start = [cells |-> cells, heap |-> heap]
    /\ pc = [p \in Procs |-> [at |-> "done", k |-> 0]]
    /\ pret = [p \in Procs |-> <<>>]

Init ==
    /\ InitMemory
    /\ lastOp = "none"
    /\ lastArgs = NoArgs
    /\ ret = <<>>
    /\ probeArg = NULL
    /\ addr = <<>>
    /\ repeat = FALSE
    /\ Idle

\* one call of the function on the caller's memory
CaptureCall(handle, a) ==
    \E r \in {DummyGetQHYCCDSingleFrame(handle, a.w, a.h, a.bpp, a.ch, a.imgdata, cells, heap)} :
        /\ cells' = r.cells
        /\ heap' = r.heap
        /\ ret' = <<r.ret>>
        /\ lastArgs' = a
        /\ lastOp' = "capture"
        /\ probeArg' = NULL
        /\ addr' = <<>>
        /\ repeat' = (ret # <<>> /\ a = lastArgs)

Capture ==
    \E handle \in Handles, a \in CallerArgs :
        /\ CaptureCall(handle, a)
        /\ UNCHANGED <<twin, start, pc, pret>>

\* variant: the probe clears the byte it is pointed at
ProbeClearing ==
    \E p \in BufPtrs :
        /\ addr' = <<DummyBufferAddress(p)>>
        /\ probeArg' = p
        /\ lastOp' = "probe"
        /\ repeat' = FALSE
        /\ heap' = IF p # NULL THEN [heap EXCEPT ![p] = 0] ELSE heap
        /\ UNCHANGED <<cells, lastArgs, ret, twin, start, pc, pret>>

Probe ==
    \E p \in BufPtrs :
        /\ addr' = <<DummyBufferAddress(p)>>
        /\ probeArg' = p
        /\ lastOp' = "probe"
        /\ repeat' = FALSE
        /\ UNCHANGED <<cells, heap, lastArgs, ret, twin, start, pc, pret>>

Next == Capture \/ Probe

Spec == Init /\ [][Next]_vars

----------------------------------------------------------------------------
(* Properties of the sequential callers *)

\* the four bytes of a uint32_t below 256
Word(v) == [k \in 0..3 |-> IF k = 0 THEN v ELSE 0]

\* the descriptor objects the last capture was given a pointer to
Passed == {lastArgs.w, lastArgs.h, lastArgs.bpp, lastArgs.ch} \ {NULL}

\* the value line 30-33 store in the descriptor object at address a
Documented(a) == Word(<<8, 4, 8, 1>>[a])

\* the heap addresses of buffer offsets 0..31 of the last capture
Filled ==
    IF lastArgs.imgdata = NULL THEN {}
    ELSE {x \in HeapAddrs : x >= lastArgs.imgdata /\ x <= lastArgs.imgdata + 31}

\* C1: after a capture given a non-null buffer of 32 bytes or more, byte i of
\* the buffer is i mod 256 for every i in 0..31, whatever the buffer held and
\* whichever descriptor destinations were null.
C1_PatternCorrect ==
    (ret # <<>> /\ lastArgs.imgdata # NULL) =>
        \A i \in 0..31 : heap[lastArgs.imgdata + i] = i % 256

\* a capture into the second buffer, no descriptor passed, over memory of 255s
C1_Witness ==
    /\ lastOp = "capture"
    /\ lastArgs.imgdata = BufSlack + 2
    /\ Passed = {}
    /\ heap[BufSlack + 1] = 255
    /\ heap[lastArgs.imgdata + 31] = 31

\* C2: after a capture every non-null descriptor destination holds its
\* constant (width 8, height 4, bits per pixel 8, channels 1), whatever the
\* other destinations are, the buffer included.
C2_DescriptorsCorrect ==
    ret # <<>> =>
        /\ lastArgs.w # NULL => cells[lastArgs.w] = Word(8)
        /\ lastArgs.h # NULL => cells[lastArgs.h] = Word(4)
        /\ lastArgs.bpp # NULL => cells[lastArgs.bpp] = Word(8)
        /\ lastArgs.ch # NULL => cells[lastArgs.ch] = Word(1)

\* a capture given a null buffer, a null width and a non-null height
C2_Witness ==
    /\ lastOp = "capture"
    /\ lastArgs.imgdata = NULL
    /\ lastArgs.w = NULL
    /\ lastArgs.h # NULL
    /\ cells[lastArgs.h] = Word(4)

\* C3: the status is 0 exactly when the buffer destination is non-null and 1
\* otherwise; it does not depend on the descriptor destinations.
C3_StatusIffBuffer ==
    ret # <<>> => ret = <<IF lastArgs.imgdata # NULL THEN 0 ELSE 1>>

\* a capture with all four descriptor destinations null and a valid buffer
C3_Witness ==
    /\ lastOp = "capture"
    /\ Passed = {}
    /\ lastArgs.imgdata # NULL
    /\ ret = <<0>>

\* C4 as stated: a capture given a null buffer writes no memory at all.
C4_NullBufferWritesNothing ==
    [][(lastOp' = "capture" /\ lastArgs'.imgdata = NULL) =>
           (cells' = cells /\ heap' = heap)]_vars

\* C4 as amended: a capture given a null buffer returns 1 and writes no byte
\* of the heap and no descriptor object it was not given, but it does store
\* the constant in every descriptor destination that is non-null.
C4_NullBufferWritesDescriptorsOnly ==
    [][(lastOp' = "capture" /\ lastArgs'.imgdata = NULL) =>
           /\ ret' = <<1>>
           /\ heap' = heap
           /\ \A a \in CellAddrs :
                  cells'[a] = IF a \in Passed' THEN Documented(a) ELSE cells[a]]_vars

\* a failed capture that stored the width over 255s and left the height alone
C4_Witness ==
    /\ lastOp = "capture"
    /\ lastArgs.imgdata = NULL
    /\ ret = <<1>>
    /\ lastArgs.w # NULL
    /\ cells[lastArgs.w] = Word(8)
    /\ lastArgs.h = NULL
    /\ cells[2] = [k \in 0..3 |-> 255]

\* C5: a capture changes no location other than the descriptor objects it was
\* given a non-null pointer to and buffer offsets 0..31: every other
\* descriptor object and every other heap byte keeps its value.
C5_Frame ==
    [][lastOp' = "capture" =>
           /\ \A a \in CellAddrs \ Passed' : cells'[a] = cells[a]
           /\ \A x \in HeapAddrs \ Filled' : heap'[x] = heap[x]]_vars

\* a capture into the first buffer without a width pointer: the width object,
\* the byte before the buffer and the byte at offset 32 still hold 255
C5_Witness ==
    /\ lastOp = "capture"
    /\ lastArgs.imgdata = BufSlack + 1
    /\ lastArgs.w = NULL
    /\ lastArgs.h # NULL
    /\ cells[1] = [k \in 0..3 |-> 255]
    /\ heap[lastArgs.imgdata - 1] = 255
    /\ heap[lastArgs.imgdata + 32] = 255
    /\ heap[lastArgs.imgdata + 31] = 31

\* C6: a capture given the same destinations as the capture before it leaves
\* the buffer, the descriptors and the status exactly as that capture left
\* them.
C6_Idempotent ==
    [][(lastOp' = "capture" /\ ret # <<>> /\ lastArgs' = lastArgs) =>
           (cells' = cells /\ heap' = heap /\ ret' = ret)]_vars

\* a second capture with the same destinations, buffer and width non-null
C6_Witness ==
    /\ repeat
    /\ lastArgs.imgdata # NULL
    /\ lastArgs.w # NULL
    /\ ret = <<0>>

\* C7: the probe returns the address it was given, and 0 for a null
\* reference.
C7_ProbeIdentity ==
    lastOp = "probe" =>
        /\ addr = <<probeArg>>
        /\ probeArg = NULL => addr = <<0>>

\* a probe of a non-null buffer whose first byte is 0
C7_Witness ==
    /\ lastOp = "probe"
    /\ probeArg # NULL
    /\ heap[probeArg] = 0
    /\ addr = <<probeArg>>

\* C8: a probe changes no heap byte, no descriptor object and no capture
\* result.
C8_ProbePure ==
    [][lastOp' = "probe" =>
           (cells' = cells /\ heap' = heap /\ ret' = ret /\ lastArgs' = lastArgs)]_vars

\* a probe of a buffer after a capture that filled it
C8_Witness ==
    /\ lastOp = "probe"
    /\ probeArg # NULL
    /\ ret = <<0>>
    /\ probeArg = lastArgs.imgdata
    /\ heap[probeArg + 1] = 1

----------------------------------------------------------------------------
(* The same call with two handles *)

\* the call of CaptureCall made a second time from the same memory, with the
\* same destinations and a different handle (the two runs are compared for
\* equality, so each pair of handles is taken in one order only)
CaptureTwin ==
    \E h1 \in Handles, h2 \in Handles, a \in CallerArgs :
        /\ h1 < h2
        /\ CaptureCall(h1, a)
        /\ \E r \in {DummyGetQHYCCDSingleFrame(h2, a.w, a.h, a.bpp, a.ch, a.imgdata, cells, heap)} :
               twin' = [cells |-> r.cells, heap |-> r.heap, ret |-> <<r.ret>>,
                        handles |-> <<h1, h2>>]
        /\ UNCHANGED <<start, pc, pret>>

NextHandle == CaptureTwin

SpecHandle == Init /\ [][NextHandle]_vars

\* C9: two captures that differ only in the handle, a null handle included,
\* started from the same memory, return the same status and leave the same
\* descriptor values and buffer contents.
C9_HandleIrrelevant ==
    /\ twin.cells = cells
    /\ twin.heap = heap
    /\ twin.ret = ret

\* a successful capture made with a null handle and with a non-null one
C9_Witness ==
    /\ lastOp = "capture"
    /\ twin.handles = <<NULL, 1>>
    /\ lastArgs.imgdata # NULL
    /\ lastArgs.w # NULL
    /\ ret = <<0>>
    /\ twin.ret = <<0>>

----------------------------------------------------------------------------
(* Concurrent callers *)

(***************************************************************************)
(* Every caller runs the function once, on the destinations in lastArgs.   *)
(* A caller's stores happen in program order, one byte at a time: the      *)
(* stores of two callers to one object are unsynchronised, so a uint32_t   *)
(* store may be seen half done.  pc[p].at is the statement caller p is at  *)
(* ("w", "h", "bpp", "ch": lines 30-33; "img": line 36; "fill": line 38),  *)
(* pc[p].k the byte of the store, or the loop index i.                     *)
(***************************************************************************)

\* the destinations the concurrent callers share
ConcArgs ==
    {a \in CallerArgs :
        /\ (a.h = NULL) = (a.bpp = NULL)
        /\ (a.bpp = NULL) = (a.ch = NULL)
        /\ a.imgdata \in {NULL, BufSlack + 1}}

DescStmts == {"w", "h", "bpp", "ch"}

\* the constant the statement stores
ValueAt(at) ==
    CASE at = "w" -> WIDTH [] at = "h" -> HEIGHT [] at = "bpp" -> BPP [] at = "ch" -> CHANNELS

\* the statement after it
After(at) ==
    CASE at = "w" -> "h" [] at = "h" -> "bpp" [] at = "bpp" -> "ch" [] at = "ch" -> "img"

InitConc ==
    /\ InitMemory
    /\ lastOp = "none"
    /\ lastArgs \in ConcArgs
    /\ ret = <<>>
    /\ probeArg = NULL
    /\ addr = <<>>
    /\ repeat = FALSE
    /\ twin = [cells |-> cells, heap |-> heap, ret |-> <<>>, handles |-> <<NULL, NULL>>]
    /\ start = [cells |-> cells, heap |-> heap]
    /\ pc = [p \in Procs |-> [at |-> "w", k |-> 0]]
    /\ pret = [p \in Procs |-> <<>>]

Quiet == UNCHANGED <<lastOp, lastArgs, ret, probeArg, addr, repeat, twin, start>>

\* if (p) with p null: nothing is stored
SkipDescriptor(p) ==
    /\ pc[p].at \in DescStmts
    /\ lastArgs[pc[p].at] = NULL
    /\ pc' = [pc EXCEPT ![p] = [at |-> After(pc[p].at), k |-> 0]]
    /\ UNCHANGED <<cells, heap, pret>>
    /\ Quiet

\* if (p) *p = v;  with p non-null: byte k of the store
StoreDescriptorByte(p) ==
    /\ pc[p].at \in DescStmts
    /\ lastArgs[pc[p].at] # NULL
    /\ cells' = StoreCellByte(cells, lastArgs[pc[p].at], ValueAt(pc[p].at), pc[p].k)
    /\ pc' = [pc EXCEPT ![p] = IF pc[p].k < 3
                                THEN [at |-> pc[p].at, k |-> pc[p].k + 1]
                                ELSE [at |-> After(pc[p].at), k |-> 0]]
    /\ UNCHANGED <<heap, pret>>
    /\ Quiet

\* if (imgdata) ... else return 1;
TestBuffer(p) ==
    /\ pc[p].at = "img"
    /\ IF lastArgs.imgdata # NULL
       THEN /\ pc' = [pc EXCEPT ![p] = [at |-> "fill", k |-> 0]]
            /\ pret' = pret
       ELSE /\ pc' = [pc EXCEPT ![p] = [at |-> "done", k |-> 0]]
            /\ pret' = [pret EXCEPT ![p] = <<FAILURE>>]
    /\ UNCHANGED <<cells, heap>>
    /\ Quiet

\* one iteration of the loop of line 38
FillByte(p) ==
    /\ pc[p].at = "fill"
    /\ pc[p].k < PatternLen
    /\ heap' = StoreImgByte(heap, lastArgs.imgdata, pc[p].k)
    /\ pc' = [pc EXCEPT ![p] = [at |-> "fill", k |-> pc[p].k + 1]]
    /\ UNCHANGED <<cells, pret>>
    /\ Quiet

\* the loop is over: return 0;
ReturnSuccess(p) ==
    /\ pc[p].at = "fill"
    /\ pc[p].k = PatternLen
    /\ pc' = [pc EXCEPT ![p] = [at |-> "done", k |-> 0]]
    /\ pret' = [pret EXCEPT ![p] = <<SUCCESS>>]
    /\ UNCHANGED <<cells, heap>>
    /\ Quiet

NextConc ==
    \E p \in Procs :
        \/ SkipDescriptor(p)
        \/ StoreDescriptorByte(p)
        \/ TestBuffer(p)
        \/ FillByte(p)
        \/ ReturnSuccess(p)

SpecConc == InitConc /\ [][NextConc]_vars

AllDone == \A p \in Procs : pc[p].at = "done"

\* what one call alone leaves of the memory the callers started from
Sequential ==
    DummyGetQHYCCDSingleFrame(NULL, lastArgs.w, lastArgs.h, lastArgs.bpp, lastArgs.ch,
                              lastArgs.imgdata, start.cells, start.heap)

\* C10: when all callers of a capture on the same non-null buffer and the same
\* descriptor destinations have finished, whatever the order of their single
\* stores, the buffer holds byte i = i mod 256 for i in 0..31, the descriptors
\* passed hold 8, 4, 8, 1, every caller returned 0, and memory is what a
\* sequential execution leaves.
C10_ConcurrentAsSequential ==
    (AllDone /\ lastArgs.imgdata # NULL) =>
        /\ \A i \in 0..31 : heap[lastArgs.imgdata + i] = i % 256
        /\ \A a \in Passed : cells[a] = Documented(a)
        /\ \A p \in Procs : pret[p] = <<0>>
        /\ cells = Sequential.cells
        /\ heap = Sequential.heap

\* all callers are done, having stored four descriptors and the buffer over 255s
C10_Witness ==
    /\ AllDone
    /\ \A p \in Procs : pret[p] = <<0>>
    /\ lastArgs.imgdata # NULL
    /\ Cardinality(Passed) = 4
    /\ start.heap[lastArgs.imgdata + 31] = 255
    /\ heap[lastArgs.imgdata + 31] = 31

====
